---- MODULE Spec2Model ----
(***************************************************************************)
(* mkv-rename (src/src/main.rs): reads the creation date of Matroska and   *)
(* MP4 files and renames each file to "<unix seconds> <file name>".        *)
(*                                                                         *)
(* TLC's integers are 32 bits wide.  The program computes with u64, i64    *)
(* and f32, so 64-bit integers are sequences of 16-bit limbs (least        *)
(* significant first, two's complement) and f32 values are records of a    *)
(* sign, a 24-bit mantissa m and an exponent e standing for m * 2^e.       *)
(* Strings the program inspects (paths, tag names) are sequences of        *)
(* one-character strings.                                                  *)
(***************************************************************************)
EXTENDS Integers, Sequences, FiniteSets, TLC

\* ------------------------------------------------------------------------
\* Option<T>
\* ------------------------------------------------------------------------
None == [some |-> FALSE]
Some(v) == [some |-> TRUE, val |-> v]

\* ------------------------------------------------------------------------
\* Fixed-width integers as limbs
\* ------------------------------------------------------------------------
Limb == 2 ^ 16
\* an i64 / u64 has 4 limbs; exact ("mathematical") values use 5
Limbs64 == 64 \div 16
LimbsExact == Limbs64 + 1

RECURSIVE ZeroLimbs(_)
ZeroLimbs(n) == IF n = 0 THEN <<>> ELSE <<0>> \o ZeroLimbs(n - 1)

RECURSIVE AddLimbs(_, _, _, _)
AddLimbs(a, b, i, carry) ==
    IF i > Len(a) THEN <<>>
    ELSE LET s == a[i] + b[i] + carry
         IN  <<s % Limb>> \o AddLimbs(a, b, i + 1, s \div Limb)

\* a + b modulo 2^(16 * Len(a))
WrappingAdd(a, b) == AddLimbs(a, b, 1, 0)

RECURSIVE NotLimbs(_, _)
NotLimbs(a, i) ==
    IF i > Len(a) THEN <<>> ELSE <<Limb - 1 - a[i]>> \o NotLimbs(a, i + 1)

WrappingNeg(a) == AddLimbs(NotLimbs(a, 1), ZeroLimbs(Len(a)), 1, 1)

WrappingSub(a, b) == WrappingAdd(a, WrappingNeg(b))

\* the sign bit of a two's complement value
IsNeg(a) == a[Len(a)] >= Limb \div 2

\* signed a - b leaves the range of the width
SubOverflows(a, b) ==
    /\ IsNeg(a) # IsNeg(b)
    /\ IsNeg(WrappingSub(a, b)) # IsNeg(a)

RECURSIVE LtUnsigned(_, _, _)
LtUnsigned(a, b, i) ==
    IF i = 0 THEN FALSE
    ELSE IF a[i] # b[i] THEN a[i] < b[i]
    ELSE LtUnsigned(a, b, i - 1)

\* signed a < b
LtSigned(a, b) ==
    IF IsNeg(a) # IsNeg(b) THEN IsNeg(a) ELSE LtUnsigned(a, b, Len(a))

LeSigned(a, b) == ~LtSigned(b, a)

\* a small integer (TLC's range) as an n-limb two's complement value
FromInt(k, n) ==
    LET lo == k % Limb
        hi == (k \div Limb) % Limb
        fill == IF k < 0 THEN Limb - 1 ELSE 0
    IN  <<lo, hi>> \o [i \in 1..(n - 2) |-> fill]

\* change of width: `as i64` of a u64 keeps the bits; the exact value of a
\* u64 is zero-extended, that of an i64 sign-extended
ZeroExtend(a, n) == a \o ZeroLimbs(n - Len(a))
SignExtend(a, n) ==
    a \o [i \in 1..(n - Len(a)) |-> IF IsNeg(a) THEN Limb - 1 ELSE 0]

RECURSIVE MulLimbs(_, _, _, _)
MulLimbs(a, k, i, carry) ==
    IF i > Len(a) THEN <<>>
    ELSE LET p == a[i] * k + carry
         IN  <<p % Limb>> \o MulLimbs(a, k, i + 1, p \div Limb)

\* a * k for 0 <= k <= 1000, modulo the width
MulSmall(a, k) == MulLimbs(a, k, 1, 0)

\* a decimal literal written in groups of three digits, most significant
\* first: Dec(<<253, 402, 300, 799>>, 4) is 253402300799 as 4 limbs
RECURSIVE DecFrom(_, _, _)
DecFrom(groups, i, acc) ==
    IF i > Len(groups) THEN acc
    ELSE DecFrom(groups, i + 1,
                 WrappingAdd(MulSmall(acc, 1000), FromInt(groups[i], Len(acc))))

Dec(groups, n) == DecFrom(groups, 1, ZeroLimbs(n))

\* unsigned long division by a small d: [q |-> quotient, r |-> remainder]
RECURSIVE DivLimbs(_, _, _, _)
DivLimbs(a, d, i, rem) ==
    IF i = 0 THEN [q |-> <<>>, r |-> rem]
    ELSE LET cur == rem * Limb + a[i]
             rest == DivLimbs(a, d, i - 1, cur % d)
         IN  [q |-> rest.q \o <<cur \div d>>, r |-> rest.r]

DivSmall(a, d) == DivLimbs(a, d, Len(a), 0)

Digits == <<"0", "1", "2", "3", "4", "5", "6", "7", "8", "9">>

RECURSIVE UnsignedToString(_)
UnsignedToString(a) ==
    LET qr == DivSmall(a, 10)
    IN  IF qr.q = ZeroLimbs(Len(a)) THEN <<Digits[qr.r + 1]>>
        ELSE UnsignedToString(qr.q) \o <<Digits[qr.r + 1]>>

\* i64::to_string
I64ToString(a) ==
    IF IsNeg(a) THEN <<"-">> \o UnsignedToString(WrappingNeg(a))
    ELSE UnsignedToString(a)

\* ------------------------------------------------------------------------
\* f32: [cls, neg, m, e] is (-1)^neg * m * 2^e; a finite non-zero value has
\* 2^23 <= m < 2^24 (subnormals, below 2^-126, are not modelled)
\* ------------------------------------------------------------------------
MantBits == 24
F32MaxExp == 127 - 23
I32Max == 2147483647
I32Min == (-I32Max) - 1

Finite(neg, m, e) == [cls |-> "finite", neg |-> neg, m |-> m, e |-> e]
Inf(neg) == [cls |-> "inf", neg |-> neg, m |-> 0, e |-> 0]
NaN == [cls |-> "nan", neg |-> FALSE, m |-> 0, e |-> 0]

RECURSIVE BitLen(_)
BitLen(m) == IF m = 0 THEN 0 ELSE 1 + BitLen(m \div 2)

\* the f32 nearest to m * 2^e (ties to even), for 0 <= m < 2^31
RoundToF32(neg, m, e) ==
    IF m = 0 THEN Finite(neg, 0, 0)
    ELSE LET n == BitLen(m)
             k == n - MantBits
             q == m \div (2 ^ k)
             r == m % (2 ^ k)
             half == 2 ^ (k - 1)
             q1 == IF r > half \/ (r = half /\ q % 2 = 1) THEN q + 1 ELSE q
             res == IF n <= MantBits
                    THEN [m |-> m * (2 ^ (MantBits - n)), e |-> e - (MantBits - n)]
                    ELSE IF q1 = 2 ^ MantBits
                    THEN [m |-> 2 ^ (MantBits - 1), e |-> e + k + 1]
                    ELSE [m |-> q1, e |-> e + k]
         IN  IF res.e > F32MaxExp THEN Inf(neg) ELSE Finite(neg, res.m, res.e)

\* x * k in f32 arithmetic, for a small positive integer k
MulF32(x, k) ==
    IF x.cls = "finite" THEN RoundToF32(x.neg, x.m * k, x.e) ELSE x

\* f32::round: to the nearest integer, halves away from zero
RoundF32(x) ==
    IF x.cls # "finite" \/ x.e >= 0 THEN x
    ELSE IF -x.e > MantBits THEN Finite(x.neg, 0, 0)
    ELSE LET d == 2 ^ (-x.e)
             q == x.m \div d
             r == x.m % d
         IN  RoundToF32(x.neg, IF 2 * r >= d THEN q + 1 ELSE q, 0)

\* `x as i32`: truncates, saturates at the ends of the range, NaN gives 0
F32AsI32(x) ==
    IF x.cls = "nan" THEN 0
    ELSE IF x.cls = "inf" THEN (IF x.neg THEN I32Min ELSE I32Max)
    ELSE IF x.m = 0 THEN 0
    ELSE IF x.e > 31 - MantBits THEN (IF x.neg THEN I32Min ELSE I32Max)
    ELSE IF x.e >= 0 THEN (IF x.neg THEN -(x.m * (2 ^ x.e)) ELSE x.m * (2 ^ x.e))
    ELSE IF -x.e >= MantBits THEN 0
    ELSE (IF x.neg THEN -(x.m \div (2 ^ (-x.e))) ELSE x.m \div (2 ^ (-x.e)))

\* `i as f32`: the nearest f32
I32AsF32(i) ==
    IF i = I32Min THEN Finite(TRUE, 2 ^ (MantBits - 1), 32 - MantBits)
    ELSE RoundToF32(i < 0, IF i < 0 THEN -i ELSE i, 0)

\* f32 ==: NaN equals nothing, the two zeros are equal
F32Eq(x, y) ==
    /\ x.cls # "nan"
    /\ y.cls # "nan"
    /\ \/ x = y
       \/ x.cls = "finite" /\ y.cls = "finite" /\ x.m = 0 /\ y.m = 0

f32_to_i32(x) ==
    IF F32Eq(x, I32AsF32(F32AsI32(x))) THEN Some(F32AsI32(x)) ELSE None

\* ------------------------------------------------------------------------
\* Strings and std::path (Unix): a path is a sequence of characters
\* ------------------------------------------------------------------------
UpperChars ==
    <<"A", "B", "C", "D", "E", "F", "G", "H", "I", "J", "K", "L",
      "M", "N", "O", "P", "Q", "R", "S", "T", "U", "V", "W", "X",
      "Y", "Z">>
LowerChars ==
    <<"a", "b", "c", "d", "e", "f", "g", "h", "i", "j", "k", "l",
      "m", "n", "o", "p", "q", "r", "s", "t", "u", "v", "w", "x",
      "y", "z">>

\* u8::to_ascii_lowercase, as a table from each upper-case letter
AsciiLower == [c \in {UpperChars[i] : i \in 1..Len(UpperChars)} |->
                 LowerChars[CHOOSE i \in 1..Len(UpperChars) : UpperChars[i] = c]]

LowerChar(c) == IF c \in DOMAIN AsciiLower THEN AsciiLower[c] ELSE c

\* str::to_ascii_lowercase
ToAsciiLowercase(s) == [i \in 1..Len(s) |-> LowerChar(s[i])]

Sep == "/"

HasRoot(p) == Len(p) > 0 /\ p[1] = Sep

\* Components::include_cur_dir: a leading "." is a component of its own
IncludeCurDir(p) ==
    /\ ~HasRoot(p)
    /\ Len(p) >= 1
    /\ p[1] = "."
    /\ (Len(p) = 1 \/ p[2] = Sep)

LenBeforeBody(p) == IF HasRoot(p) \/ IncludeCurDir(p) THEN 1 ELSE 0

\* the greatest index above lo that holds ch, or 0
RECURSIVE RPosition(_, _, _, _)
RPosition(p, ch, i, lo) ==
    IF i <= lo THEN 0
    ELSE IF p[i] = ch THEN i
    ELSE RPosition(p, ch, i - 1, lo)

\* Components::parse_next_component_back: the text after the body's last
\* separator, and the path left when it and that separator are removed
LastComponent(p) ==
    LET j == RPosition(p, Sep, Len(p), LenBeforeBody(p))
        from == IF j = 0 THEN LenBeforeBody(p) ELSE j
    IN  [comp |-> SubSeq(p, from + 1, Len(p)),
         rest |-> SubSeq(p, 1, IF j = 0 THEN from ELSE j - 1)]

\* Components::next_back: empty and "." components of the body are skipped
RECURSIVE NextBack(_)
NextBack(p) ==
    IF Len(p) > LenBeforeBody(p)
    THEN LET lc == LastComponent(p)
         IN  IF lc.comp = <<>> \/ lc.comp = <<".">> THEN NextBack(lc.rest)
             ELSE [kind |-> IF lc.comp = <<".", ".">> THEN "ParentDir" ELSE "Normal",
                   comp |-> lc.comp, rest |-> lc.rest]
    ELSE IF HasRoot(p) THEN [kind |-> "RootDir", comp |-> <<Sep>>, rest |-> <<>>]
    ELSE IF IncludeCurDir(p) THEN [kind |-> "CurDir", comp |-> <<".">>, rest |-> <<>>]
    ELSE [kind |-> "End", comp |-> <<>>, rest |-> <<>>]

\* Components::as_path after next_back: trailing separators and "." dropped
RECURSIVE TrimRight(_)
TrimRight(p) ==
    IF Len(p) > LenBeforeBody(p)
    THEN LET lc == LastComponent(p)
         IN  IF lc.comp = <<>> \/ lc.comp = <<".">> THEN TrimRight(lc.rest) ELSE p
    ELSE p

\* Path::file_name
FileName(p) ==
    LET nb == NextBack(p)
    IN  IF nb.kind = "Normal" THEN Some(nb.comp) ELSE None

\* Path::parent
Parent(p) ==
    LET nb == NextBack(p)
    IN  IF nb.kind \in {"Normal", "CurDir", "ParentDir"}
        THEN Some(TrimRight(nb.rest)) ELSE None

\* rsplit_file_at_dot
RsplitFileAtDot(file) ==
    LET j == RPosition(file, ".", Len(file), 0)
    IN  IF file = <<".", ".">> THEN [before |-> Some(file), after |-> None]
        ELSE IF j = 0 THEN [before |-> None, after |-> Some(file)]
        ELSE IF j = 1 THEN [before |-> Some(file), after |-> None]
        ELSE [before |-> Some(SubSeq(file, 1, j - 1)),
              after |-> Some(SubSeq(file, j + 1, Len(file)))]

\* Path::extension
Extension(p) ==
    LET f == FileName(p)
    IN  IF ~f.some THEN None
        ELSE LET s == RsplitFileAtDot(f.val)
             IN  IF s.before.some THEN s.after ELSE None

\* PathBuf::pop
Pop(buf) ==
    LET par == Parent(buf)
    IN  IF par.some THEN SubSeq(buf, 1, Len(par.val)) ELSE buf

\* PathBuf::push
Push(buf, name) ==
    IF Len(name) > 0 /\ name[1] = Sep THEN name
    ELSE IF Len(buf) > 0 /\ buf[Len(buf)] # Sep THEN buf \o <<Sep>> \o name
    ELSE buf \o name

\* Path::with_file_name (PathBuf::set_file_name on a copy)
WithFileName(p, name) ==
    Push(IF FileName(p).some THEN Pop(p) ELSE p, name)

\* ------------------------------------------------------------------------
\* time::OffsetDateTime: [unix, offset], the Unix seconds (an i64) and the UTC
\* offset in seconds.  The representable local date-times are the years
\* -9999 to 9999.
\* ------------------------------------------------------------------------
I64(k) == FromInt(k, Limbs64)

\* -9999-01-01T00:00:00 and 9999-12-31T23:59:59
MinDateTime == WrappingNeg(Dec(<<377, 705, 116, 800>>, Limbs64))
MaxDateTime == Dec(<<253, 402, 300, 799>>, Limbs64)
\* 1900-01-01T00:00:00
Year1900 == WrappingNeg(Dec(<<2, 208, 988, 800>>, Limbs64))

DateTime(unix, offset) == [unix |-> unix, offset |-> offset]

InDateRange(t) == LeSigned(MinDateTime, t) /\ LeSigned(t, MaxDateTime)

\* the local date and time as seconds
LocalSeconds(dt) == WrappingAdd(dt.unix, I64(dt.offset))

\* OffsetDateTime::from_unix_timestamp
from_unix_timestamp(ts) ==
    IF InDateRange(ts) THEN Some(DateTime(ts, 0)) ELSE None

\* OffsetDateTime::checked_add of a Duration of whole seconds; the `+`
\* operator panics where this is None
checked_add(dt, seconds) ==
    IF InDateRange(WrappingAdd(LocalSeconds(dt), I64(seconds)))
    THEN Some(DateTime(WrappingAdd(dt.unix, I64(seconds)), dt.offset))
    ELSE None

\* datetime.format(&Rfc2822) is an Err for a year before 1900 and for an
\* offset that is not whole minutes
format_rfc2822_ok(dt) ==
    /\ LeSigned(Year1900, LocalSeconds(dt))
    /\ dt.offset % 60 = 0

\* OffsetDateTime::parse(s, &Iso8601::DEFAULT) on the strings of the model
ParseIso8601(s) ==
    CASE s = "2023-04-12T12:19:01+10:00"
           -> Some(DateTime(Dec(<<1, 681, 265, 941>>, Limbs64), 36000))
      [] s = "2019-07-04T09:30:00Z"
           -> Some(DateTime(Dec(<<1, 562, 232, 600>>, Limbs64), 0))
      [] s = "1899-12-31T23:59:59Z"
           -> Some(DateTime(WrappingNeg(Dec(<<2, 208, 988, 801>>, Limbs64)), 0))
      [] OTHER -> None

\* ------------------------------------------------------------------------
\* The resolvers
\* ------------------------------------------------------------------------
QuickTimeTag ==
    <<"c", "o", "m", ".", "a", "p", "p", "l", "e", ".", "q", "u",
      "i", "c", "k", "t", "i", "m", "e", ".", "c", "r", "e", "a",
      "t", "i", "o", "n", "d", "a", "t", "e">>

StringValue(s) == [kind |-> "String", s |-> s]
BinaryValue == [kind |-> "Binary", s |-> ""]
Simple(name, value) == [name |-> name, value |-> value]

Decoded(entry) ==
    IF entry.value.some /\ entry.value.val.kind = "String"
    THEN ParseIso8601(entry.value.val.s) ELSE None

\* a find that skips the entries whose value does not decode
RECURSIVE FindSimple_SkipUndecodable(_, _)
FindSimple_SkipUndecodable(simple, i) ==
    IF i > Len(simple) THEN None
    ELSE IF ToAsciiLowercase(simple[i].name) = QuickTimeTag
            /\ Decoded(simple[i]).some
    THEN Some(simple[i])
    ELSE FindSimple_SkipUndecodable(simple, i + 1)

\* Iterator::find over tag.simple
RECURSIVE FindSimple(_, _)
FindSimple(simple, i) ==
    IF i > Len(simple) THEN None
    ELSE IF ToAsciiLowercase(simple[i].name) = QuickTimeTag THEN Some(simple[i])
    ELSE FindSimple(simple, i + 1)

\* the closure given to find_map: one tag block's date
TagCreationDate(tag) ==
    LET found == FindSimple(tag, 1)
    IN  IF ~found.some THEN None
        ELSE IF ~found.val.value.some THEN None
        ELSE IF found.val.value.val.kind = "String"
        THEN ParseIso8601(found.val.value.val.s)
        ELSE None

\* Iterator::find_map over mkv.tags
RECURSIVE FindMapTags(_, _)
FindMapTags(tags, i) ==
    IF i > Len(tags) THEN None
    ELSE LET r == TagCreationDate(tags[i])
         IN  IF r.some THEN r ELSE FindMapTags(tags, i + 1)

quicktime_creation_date(mkv) == FindMapTags(mkv.tags, 1)

\* the info date taken first
mkv_creation_date_InfoFirst(mkv) ==
    LET q == quicktime_creation_date(mkv)
    IN  IF mkv.date_utc.some THEN mkv.date_utc ELSE q

mkv_creation_date(mkv) ==
    LET q == quicktime_creation_date(mkv)
    IN  IF q.some THEN q ELSE mkv.date_utc

\* seconds from 1904-01-01 to 1970-01-01
Mp4EpochOffset == 2082844800

\* [panic, date]: `creation_time as i64 - 2082844800` panics on overflow in
\* a build with overflow checks and wraps in one without
mp4_creation_date(creation_time, overflow_checks) ==
    LET as_i64 == creation_time
        timestamp == WrappingSub(as_i64, I64(Mp4EpochOffset))
    IN  IF overflow_checks /\ SubOverflows(as_i64, I64(Mp4EpochOffset))
        THEN [panic |-> TRUE, date |-> None]
        ELSE [panic |-> FALSE, date |-> from_unix_timestamp(timestamp)]

\* the new name pushed onto the whole path (Path::join)
generate_new_path_Join(path, creation_date) ==
    LET name == FileName(path)
    IN  IF ~name.some THEN [panic |-> TRUE, path |-> <<>>]
        ELSE [panic |-> FALSE,
              path |-> Push(path,
                          I64ToString(creation_date.unix) \o <<" ">> \o name.val)]

\* [panic, path]: path.file_name().unwrap() panics on None
generate_new_path(path, creation_date) ==
    LET name == FileName(path)
    IN  IF ~name.some THEN [panic |-> TRUE, path |-> <<>>]
        ELSE [panic |-> FALSE,
              path |-> WithFileName(path,
                          I64ToString(creation_date.unix) \o <<" ">> \o name.val)]

\* ------------------------------------------------------------------------
\* Inputs of the model
\* ------------------------------------------------------------------------
MaxPaths == 2

Path_ImgMkv ==
    <<"f", "o", "l", "d", "e", "r", "/", "I", "M", "G", "_", "4",
      "7", "9", "2", ".", "m", "k", "v">>
Path_TrailingSlash == <<"b", ".", "M", "o", "v", "/">>
Path_UpperMp4 == <<"a", ".", "M", "P", "4">>
Path_RootM4v == <<"/", "v", ".", "m", "4", "v">>
Path_Txt == <<"n", "o", "t", "e", "s", ".", "t", "x", "t">>
Path_DotDot == <<"d", "i", "r", "/", ".", ".">>
Path_Hidden == <<".", "m", "k", "v">>

SamplePaths ==
    {Path_ImgMkv, Path_TrailingSlash, Path_UpperMp4, Path_RootM4v,
     Path_Txt, Path_DotDot, Path_Hidden}

RECURSIVE SeqsUpTo(_, _)
SeqsUpTo(S, n) ==
    IF n = 0 THEN {<<>>}
    ELSE LET shorter == SeqsUpTo(S, n - 1)
         IN  shorter \cup {Append(q, x) : q \in shorter, x \in S}

\* --tz-offset values: 0, -3.5, 596523.25 and 600000
TzOffsets ==
    {Finite(FALSE, 0, 0), RoundToF32(TRUE, 7, -1),
     RoundToF32(FALSE, 2386093, -2), RoundToF32(FALSE, 600000, 0)}

\* mvhd.creation_time values (u64): the MP4 epoch, the Unix epoch, the last
\* second of the year 9999, the second after it, 2^63 and 2^64 - 1
SampleCreationTimes ==
    {ZeroLimbs(Limbs64),
     I64(Mp4EpochOffset),
     Dec(<<255, 485, 145, 599>>, Limbs64),
     Dec(<<255, 485, 145, 600>>, Limbs64),
     <<0, 0, 0, Limb \div 2>>,
     <<Limb - 1, Limb - 1, Limb - 1, Limb - 1>>}

\* simple tags of the model
Name_Lower == QuickTimeTag
Name_Mixed ==
    <<"C", "O", "M", ".", "A", "P", "P", "L", "E", ".", "Q", "u",
      "i", "c", "k", "T", "i", "m", "e", ".", "C", "r", "e", "a",
      "t", "i", "o", "n", "D", "a", "t", "e">>
Name_Title == <<"t", "i", "t", "l", "e">>

Iso_A == "2023-04-12T12:19:01+10:00"
Iso_B == "2019-07-04T09:30:00Z"
Iso_Old == "1899-12-31T23:59:59Z"
NotIso == "2023:04:12 12:19:01"

Entry_Other == Simple(Name_Title, Some(StringValue(Iso_B)))
Entry_A == Simple(Name_Lower, Some(StringValue(Iso_A)))
Entry_B == Simple(Name_Mixed, Some(StringValue(Iso_B)))
Entry_Bad == Simple(Name_Mixed, Some(StringValue(NotIso)))
Entry_Binary == Simple(Name_Lower, Some(BinaryValue))
Entry_NoValue == Simple(Name_Lower, None)
Entry_Old == Simple(Name_Lower, Some(StringValue(Iso_Old)))

\* info.date_utc values: 2001-01-01T00:00:00Z and 9999-12-31T23:59:59Z
Info_2001 == DateTime(Dec(<<978, 307, 200>>, Limbs64), 0)
Info_Max == DateTime(MaxDateTime, 0)

Matroska(tags, date_utc) == [tags |-> tags, date_utc |-> date_utc]

\* parsed documents the run may meet
SampleMkv ==
    {Matroska(<<>>, None),
     Matroska(<<<<Entry_Other, Entry_A>>>>, Some(Info_2001)),
     Matroska(<<<<Entry_Old>>>>, None),
     Matroska(<<<<Entry_Binary>>>>, Some(Info_Max))}

\* every document of at most MaxBlocks tag blocks and MaxSimple simple tags
MaxBlocks == 2
MaxSimple == 3

TagEntries ==
    {Entry_Other, Entry_A, Entry_B, Entry_Bad, Entry_Binary, Entry_NoValue}

RECURSIVE BlocksOfLen(_)
BlocksOfLen(k) ==
    IF k = 0 THEN {<<>>}
    ELSE {Append(b, e) : b \in BlocksOfLen(k - 1), e \in TagEntries}

RECURSIVE TagLists(_, _)
TagLists(b, n) ==
    IF b = 0 THEN {<<>>}
    ELSE {<<>>} \cup
         UNION {{<<blk>> \o rest : blk \in BlocksOfLen(k),
                                   rest \in TagLists(b - 1, n - k)} : k \in 0..n}

AllMkv ==
    {Matroska(t, d) : t \in TagLists(MaxBlocks, MaxSimple),
                      d \in {None, Some(Info_2001)}}

\* ------------------------------------------------------------------------
\* The program
\* ------------------------------------------------------------------------
VARIABLES
    pc,              \* "start", "loop" or "exited"
    tz_offset,       \* all_flags.tz_offset.unwrap_or_default(), an f32
    dry_run,         \* all_flags.dry_run
    paths,           \* all_flags.paths
    overflow_checks, \* whether the build checks integer overflow
    offset,          \* flags.offset in seconds, once main has computed it
    next_path,       \* index in paths of the next iteration of the for loop
    ok,              \* main's `ok`
    exit_code,       \* "none", "SUCCESS", "FAILURE" or "PANIC"
    attempted,       \* the paths process() was called with, in order
    err_reported,    \* an "Error processing ..." line was printed
    last,            \* what the latest call of process() did
    doc,             \* the document given to mkv_creation_date on its own
    doc_date         \* and what it returned, once it has

vars == <<pc, tz_offset, dry_run, paths, overflow_checks, offset, next_path,
          ok, exit_code, attempted, err_reported, last, doc, doc_date>>

\* the record of one call of process(); kind "None" before the first call
NoCall ==
    [path |-> <<>>, kind |-> "None", opened |-> FALSE, creation_time |-> None,
     resolved |-> None, datetime |-> None, new_path |-> None,
     printed |-> FALSE, renames |-> 0, result |-> "None"]

Call(path, kind) == [NoCall EXCEPT !.path = path, !.kind = kind]

Ext_mkv == <<"m", "k", "v">>
Ext_mov == <<"m", "o", "v">>
Ext_mp4 == <<"m", "p", "4">>
Ext_m4v == <<"m", "4", "v">>

\* the extension compared as written
Dispatch_CaseSensitive(path) ==
    LET ext == Extension(path)
    IN  IF ~ext.some THEN "Unknown"
        ELSE IF ext.val = Ext_mkv THEN "Matroska"
        ELSE IF ext.val \in {Ext_mov, Ext_mp4, Ext_m4v} THEN "Mp4"
        ELSE "Unknown"

\* a path without an extension taken for Matroska
Dispatch_NoExtensionIsMatroska(path) ==
    LET ext == Extension(path)
        lower == ToAsciiLowercase(ext.val)
    IN  IF ~ext.some THEN "Matroska"
        ELSE IF lower = Ext_mkv THEN "Matroska"
        ELSE IF lower \in {Ext_mov, Ext_mp4, Ext_m4v} THEN "Mp4"
        ELSE "Unknown"

\* the match of process(): which arm a path takes
Dispatch(path) ==
    LET ext == Extension(path)
        lower == ToAsciiLowercase(ext.val)
    IN  IF ~ext.some THEN "Unknown"
        ELSE IF lower = Ext_mkv THEN "Matroska"
        ELSE IF lower \in {Ext_mov, Ext_mp4, Ext_m4v} THEN "Mp4"
        ELSE "Unknown"

\* [calls, ok]: fs::rename is called unless dry_run; fs_ok is its outcome
maybe_do_rename(is_dry_run, fs_ok) ==
    IF ~is_dry_run THEN [calls |-> 1, ok |-> fs_ok] ELSE [calls |-> 0, ok |-> TRUE]

\* process_matroska and process_mp4 from the resolved date on: add the
\* offset, name the new path, print the line, rename
AfterResolve(call, resolved, flag_offset, flag_dry_run, fs_ok) ==
    IF ~resolved.some
    THEN [call EXCEPT !.result = "Err: unable to determine creation date"]
    ELSE LET sum == checked_add(resolved.val, flag_offset)
             new_path == generate_new_path(call.path, sum.val)
             renamed == maybe_do_rename(flag_dry_run, fs_ok)
             c1 == [call EXCEPT !.resolved = resolved]
             c2 == [c1 EXCEPT !.datetime = sum]
             c3 == [c2 EXCEPT !.new_path = Some(new_path.path)]
         IN  IF ~sum.some THEN [c1 EXCEPT !.result = "Panic"]
             ELSE IF new_path.panic THEN [c2 EXCEPT !.result = "Panic"]
             ELSE IF ~format_rfc2822_ok(sum.val) THEN [c3 EXCEPT !.result = "Panic"]
             ELSE [c3 EXCEPT !.printed = TRUE,
                             !.renames = renamed.calls,
                             !.result = IF renamed.ok THEN "Ok"
                                        ELSE "Err: unable to rename"]

\* mkv is the outcome of matroska::open: None for an error
process_matroska(path, mkv, flag_offset, flag_dry_run, fs_ok) ==
    LET call == [Call(path, "Matroska") EXCEPT !.opened = TRUE]
    IN  IF ~mkv.some THEN [call EXCEPT !.result = "Err: open"]
        ELSE AfterResolve(call, mkv_creation_date(mkv.val),
                          flag_offset, flag_dry_run, fs_ok)

\* mvhd is the creation_time of the header read: None for an error of
\* File::open, metadata or read_header
process_mp4(path, mvhd, checks, flag_offset, flag_dry_run, fs_ok) ==
    LET call == [Call(path, "Mp4") EXCEPT !.opened = TRUE, !.creation_time = mvhd]
        date == mp4_creation_date(mvhd.val, checks)
    IN  IF ~mvhd.some THEN [call EXCEPT !.result = "Err: open"]
        ELSE IF date.panic THEN [call EXCEPT !.result = "Panic"]
        ELSE AfterResolve(call, date.date, flag_offset, flag_dry_run, fs_ok)

process_unknown(path) ==
    [Call(path, "Unknown") EXCEPT !.result = "Err: unknown file type"]

Init ==
    /\ pc = "start"
    /\ tz_offset \in TzOffsets
    /\ dry_run \in BOOLEAN
    /\ paths \in SeqsUpTo(SamplePaths, MaxPaths)
    /\ overflow_checks \in BOOLEAN
    /\ offset = 0
    /\ next_path = 1
    /\ ok = TRUE
    /\ exit_code = "none"
    /\ attempted = <<>>
    /\ err_reported = FALSE
    /\ last = NoCall
    /\ doc = None
    /\ doc_date = None

\* main, lines 37-49: the offset in seconds, or "offset too big"
MainOffset ==
    /\ pc = "start"
    /\ LET seconds == f32_to_i32(RoundF32(MulF32(MulF32(tz_offset, 60), 60)))
       IN  IF seconds.some
           THEN /\ offset' = seconds.val
                /\ pc' = "loop"
                /\ exit_code' = exit_code
           ELSE /\ offset' = offset
                /\ pc' = "exited"
                /\ exit_code' = "FAILURE"
    /\ UNCHANGED <<tz_offset, dry_run, paths, overflow_checks, next_path, ok,
                   attempted, err_reported, last, doc, doc_date>>

\* main, lines 50-59: one iteration of the for loop, given what process()
\* did; a panic ends the process at once
Iterate(call) ==
    /\ attempted' = Append(attempted, call.path)
    /\ last' = call
    /\ next_path' = next_path + 1
    /\ IF call.result = "Panic"
       THEN /\ pc' = "exited"
            /\ exit_code' = "PANIC"
            /\ UNCHANGED <<ok, err_reported>>
       ELSE /\ pc' = pc
            /\ exit_code' = exit_code
            /\ ok' = IF call.result = "Ok" THEN ok ELSE FALSE
            /\ err_reported' = (err_reported \/ call.result # "Ok")
    /\ UNCHANGED <<tz_offset, dry_run, paths, overflow_checks, offset, doc,
                   doc_date>>

LoopGuard == pc = "loop" /\ next_path <= Len(paths)

\* what fs::rename may return; in a dry run it is never called
RenameOutcomes == IF dry_run THEN {TRUE} ELSE BOOLEAN

ProcessMatroska ==
    /\ LoopGuard
    /\ Dispatch(paths[next_path]) = "Matroska"
    /\ \E mkv \in {None} \cup {Some(m) : m \in SampleMkv}, fs_ok \in RenameOutcomes :
          Iterate(process_matroska(paths[next_path], mkv, offset, dry_run, fs_ok))

ProcessMp4 ==
    /\ LoopGuard
    /\ Dispatch(paths[next_path]) = "Mp4"
    /\ \E mvhd \in {None} \cup {Some(c) : c \in SampleCreationTimes},
          fs_ok \in RenameOutcomes :
          Iterate(process_mp4(paths[next_path], mvhd, overflow_checks,
                              offset, dry_run, fs_ok))

ProcessUnknown ==
    /\ LoopGuard
    /\ Dispatch(paths[next_path]) = "Unknown"
    /\ Iterate(process_unknown(paths[next_path]))

\* main, lines 61-65
MainExit ==
    /\ pc = "loop"
    /\ next_path > Len(paths)
    /\ pc' = "exited"
    /\ exit_code' = IF ok THEN "SUCCESS" ELSE "FAILURE"
    /\ UNCHANGED <<tz_offset, dry_run, paths, overflow_checks, offset,
                   next_path, ok, attempted, err_reported, last, doc, doc_date>>

Next ==
    \/ MainOffset
    \/ ProcessMatroska
    \/ ProcessMp4
    \/ ProcessUnknown
    \/ MainExit

Spec == Init /\ [][Next]_vars

\* ------------------------------------------------------------------------
\* mkv_creation_date on its own, over every document of AllMkv
\* ------------------------------------------------------------------------
InitMkv ==
    /\ pc = "resolver"
    /\ tz_offset = Finite(FALSE, 0, 0)
    /\ dry_run = TRUE
    /\ paths = <<>>
    /\ overflow_checks = FALSE
    /\ offset = 0
    /\ next_path = 1
    /\ ok = TRUE
    /\ exit_code = "none"
    /\ attempted = <<>>
    /\ err_reported = FALSE
    /\ last = NoCall
    /\ doc \in {Some(m) : m \in AllMkv}
    /\ doc_date = None

ResolveMkv ==
    /\ pc = "resolver"
    /\ pc' = "resolved"
    /\ doc_date' = Some(mkv_creation_date(doc.val))
    /\ UNCHANGED <<tz_offset, dry_run, paths, overflow_checks, offset,
                   next_path, ok, exit_code, attempted, err_reported, last, doc>>

NextMkv == ResolveMkv

SpecMkv == InitMkv /\ [][NextMkv]_vars

\* ------------------------------------------------------------------------
\* Properties
\* ------------------------------------------------------------------------

\* the number of seconds asked for: (hours * 60 * 60).round(), an f32
RequestedSeconds == RoundF32(MulF32(MulF32(tz_offset, 60), 60))

\* an integer-valued f32 lies in [-2^31, 2^31 - 1]
FitsI32(x) ==
    /\ x.cls = "finite"
    /\ \/ x.m = 0
       \/ x.e <= 31 - MantBits
       \/ x.neg /\ x.m = 2 ^ (MantBits - 1) /\ x.e = 32 - MantBits

\* the value of such an f32
IntegerOf(x) ==
    LET magnitude == IF x.e >= 0 THEN x.m * (2 ^ x.e) ELSE x.m \div (2 ^ (-x.e))
    IN  IF x.m = 0 THEN 0
        ELSE IF x.e > 31 - MantBits THEN I32Min
        ELSE IF x.neg THEN -magnitude ELSE magnitude

\* main returned "offset too big" before the loop
OffsetRejected ==
    /\ pc = "exited"
    /\ exit_code = "FAILURE"
    /\ next_path = 1
    /\ attempted = <<>>
    /\ last = NoCall

\* the run ended after the offset was accepted
RunEnded == pc = "exited" /\ ~OffsetRejected

\* C1: the exit status is success exactly when every path was processed
\* without error, and it is produced only after the last path was attempted
\* (stated for a build without overflow checks, where only the date
\* arithmetic and the formatting of the report line can stop a run).
C1_ExitStatus ==
    (RunEnded /\ ~overflow_checks) =>
        /\ attempted = paths
        /\ (exit_code = "SUCCESS") <=> (~err_reported /\ last.result # "Panic")

\* C2: every path is attempted once, in the order supplied, each attempt
\* ends in success or a reported per-file error, and nothing stops the run
\* before the remaining paths are attempted (stated, as C1, for a build
\* without overflow checks).
C2_EveryPathAttempted ==
    ~overflow_checks =>
        /\ attempted = SubSeq(paths, 1, Len(attempted))
        /\ last.result \in {"None", "Ok", "Err: unknown file type", "Err: open",
                            "Err: unable to determine creation date",
                            "Err: unable to rename"}
        /\ RunEnded => attempted = paths

\* C3: fs::rename is called once for a path when dry-run is unset and a
\* creation date was resolved, and not at all otherwise (stated, as C1, for
\* a build without overflow checks).
C3_RenameCount ==
    (last.kind # "None" /\ ~overflow_checks) =>
        last.renames = IF ~dry_run /\ last.resolved.some THEN 1 ELSE 0

\* the positions <<block, entry>> of a document's simple tags, those named
\* com.apple.quicktime.creationdate, and the order they are stored in
Positions(tags) ==
    UNION {{<<b, i>> : i \in 1..Len(tags[b])} : b \in 1..Len(tags)}
IsQuickTime(entry) == ToAsciiLowercase(entry.name) = QuickTimeTag
Matching(tags) == {p \in Positions(tags) : IsQuickTime(tags[p[1]][p[2]])}
Before(p, q) == p[1] < q[1] \/ (p[1] = q[1] /\ p[2] < q[2])
EarliestOf(S) == CHOOSE p \in S : \A q \in S : q = p \/ Before(p, q)
\* the first matching entry of each block that has one
BlockFirsts(tags) ==
    {p \in Matching(tags) :
        \A q \in Matching(tags) : q[1] = p[1] => q[2] >= p[2]}
DecodedAt(tags, p) == Decoded(tags[p[1]][p[2]])
Decodable(tags, S) == {p \in S : DecodedAt(tags, p).some}

\* C4 as stated: when the first matching entry of the whole document does
\* not decode, the resolved date is the info date, whatever follows it.
C4_FirstEntryDecides ==
    doc_date.some =>
        LET tags == doc.val.tags
        IN  (Matching(tags) # {} /\ ~DecodedAt(tags, EarliestOf(Matching(tags))).some)
                => doc_date.val = doc.val.date_utc

\* C4 as amended: each tag block is represented by its first matching
\* entry alone.  When none of those decodes, the resolved date is the info
\* date (none when that is absent), whatever the later entries of a block
\* hold; otherwise it is the value of the earliest of them that decodes.
C4_BlockFirstsDecide ==
    doc_date.some =>
        LET tags == doc.val.tags
            usable == Decodable(tags, BlockFirsts(tags))
        IN  IF usable = {}
            THEN doc_date.val = doc.val.date_utc
            ELSE doc_date.val = DecodedAt(tags, EarliestOf(usable))

\* a block whose first matching entry does not decode and a later one of
\* the same block does, an info date, and the info date resolved
C4_Witness ==
    /\ doc_date.some
    /\ doc.val.date_utc.some
    /\ doc_date.val = doc.val.date_utc
    /\ \E p \in BlockFirsts(doc.val.tags), q \in Matching(doc.val.tags) :
          /\ q[1] = p[1]
          /\ q[2] > p[2]
          /\ ~DecodedAt(doc.val.tags, p).some
          /\ DecodedAt(doc.val.tags, q).some

\* C5: with an info date present, a document whose QuickTime tag (the
\* first matching entry) is a valid ISO-8601 string resolves to the tag's
\* value and not to the info date; a document with no matching entry
\* resolves to the info date.
C5_TagBeforeInfo ==
    (doc_date.some /\ doc.val.date_utc.some) =>
        LET tags == doc.val.tags
            first == EarliestOf(Matching(tags))
        IN  /\ (Matching(tags) # {} /\ DecodedAt(tags, first).some)
                  => /\ doc_date.val = DecodedAt(tags, first)
                     /\ doc_date.val # doc.val.date_utc
            /\ Matching(tags) = {} => doc_date.val = doc.val.date_utc

C5_Witness ==
    /\ doc_date.some
    /\ doc.val.date_utc.some
    /\ Matching(doc.val.tags) # {}
    /\ DecodedAt(doc.val.tags, EarliestOf(Matching(doc.val.tags))).some
    /\ doc_date.val = Some(DateTime(Dec(<<1, 681, 265, 941>>, Limbs64), 36000))

\* exact integers: 5 limbs hold every u64 and every difference of the model
Exact(k) == FromInt(k, LimbsExact)
ExactInDateRange(t) ==
    /\ LeSigned(SignExtend(MinDateTime, LimbsExact), t)
    /\ LeSigned(t, SignExtend(MaxDateTime, LimbsExact))

\* C6: for a creation_time c the MP4 resolver returns the timestamp
\* c - 2082844800 when that is a valid timestamp, and no timestamp
\* otherwise.
C6_Mp4EpochConversion ==
    (last.kind = "Mp4" /\ last.creation_time.some) =>
        LET exact == WrappingSub(ZeroExtend(last.creation_time.val, LimbsExact),
                                 Exact(Mp4EpochOffset))
        IN  IF ExactInDateRange(exact)
            THEN /\ last.resolved.some
                 /\ SignExtend(last.resolved.val.unix, LimbsExact) = exact
            ELSE ~last.resolved.some

\* C7: an offset that does not fit in an i32 ends the run with a failure
\* before any path is touched; one that fits is the offset used.
C7_OffsetRange ==
    pc # "start" =>
        IF FitsI32(RequestedSeconds)
        THEN ~OffsetRejected /\ offset = IntegerOf(RequestedSeconds)
        ELSE OffsetRejected

\* C8: the path printed and renamed to is in the directory of the original
\* path, and its file name is the decimal T + s, a space, and the original
\* file name; folder/IMG_4792.mkv at 1681265941 gives
\* folder/1681265941 IMG_4792.mkv.
Path_ImgMkvRenamed ==
    <<"f", "o", "l", "d", "e", "r", "/", "1", "6", "8", "1", "2",
      "6", "5", "9", "4", "1", " ", "I", "M", "G", "_", "4", "7",
      "9", "2", ".", "m", "k", "v">>
Path_ImgMkvShifted ==
    <<"f", "o", "l", "d", "e", "r", "/", "1", "6", "8", "1", "2",
      "5", "3", "3", "4", "1", " ", "I", "M", "G", "_", "4", "7",
      "9", "2", ".", "m", "k", "v">>

C8_NewPath ==
    last.printed =>
        LET total == WrappingAdd(last.resolved.val.unix, I64(offset))
            name == FileName(last.path)
            new_path == last.new_path.val
        IN  /\ last.resolved.some /\ last.new_path.some /\ name.some
            /\ FileName(new_path) = Some(I64ToString(total) \o <<" ">> \o name.val)
            /\ Parent(new_path) = Parent(last.path)
            /\ (last.path = Path_ImgMkv /\ total = Dec(<<1, 681, 265, 941>>, Limbs64))
                  => new_path = Path_ImgMkvRenamed

\* the example of the claim with the offset -3.5 hours, renamed
C8_Witness ==
    /\ last.printed
    /\ last.renames = 1
    /\ offset = -12600
    /\ last.path = Path_ImgMkv
    /\ last.new_path = Some(Path_ImgMkvShifted)

\* C9: the container kind follows from the lower-cased extension alone, and
\* a path of any other or no extension gets the unknown-file-type error
\* with no file opened, no line printed and no rename.
C9_Dispatch ==
    last.kind # "None" =>
        LET ext == Extension(last.path)
            is(e) == ext.some /\ ToAsciiLowercase(ext.val) = e
        IN  /\ last.kind = "Matroska" <=> is(Ext_mkv)
            /\ last.kind = "Mp4" <=> (is(Ext_mov) \/ is(Ext_mp4) \/ is(Ext_m4v))
            /\ last.kind \in {"Matroska", "Mp4"} => last.opened
            /\ last.path = Path_ImgMkv => last.kind = "Matroska"
            /\ last.path \in {Path_TrailingSlash, Path_UpperMp4, Path_RootM4v}
                  => last.kind = "Mp4"
            /\ last.kind \notin {"Matroska", "Mp4"} =>
                  /\ last.kind = "Unknown"
                  /\ last.result = "Err: unknown file type"
                  /\ ~last.opened
                  /\ ~last.printed
                  /\ last.renames = 0

\* the file named .mkv has no extension
C9_Witness ==
    /\ last.path = Path_Hidden
    /\ last.kind = "Unknown"
    /\ err_reported

\* C10: generate_new_path is reached only with a path that has a file
\* name, so its unwrap never fails; a path without one is rejected by the
\* dispatcher before anything is opened.
C10_FileNameExists ==
    /\ ~(last.result = "Panic" /\ last.datetime.some /\ ~last.new_path.some)
    /\ last.datetime.some => FileName(last.path).some
    /\ (last.kind # "None" /\ ~FileName(last.path).some)
          => (last.kind = "Unknown" /\ ~last.opened)

\* dir/.. was rejected and the next path was named
C10_Witness ==
    /\ Len(attempted) = 2
    /\ attempted[1] = Path_DotDot
    /\ last.new_path.some

====
